---- MODULE Spec2Model ----
(***************************************************************************)
(* Model of src/main.go: the NVML Prometheus exporter.                     *)
(*                                                                         *)
(* main() initializes the native binding, registers one Collector and      *)
(* serves HTTP.  Every scrape runs Collector.Collect on its own goroutine  *)
(* with its own output channel; the Collector (mutex, count gauge, six     *)
(* gauge vectors) is shared by all of them.                                *)
(***************************************************************************)
EXTENDS Integers, Sequences, FiniteSets, TLC

\* ------------------------------------------------------------------ bounds
NumScrapes == 2       \* scrape requests, each served by a goroutine of its own
MaxDevices == 2       \* largest device count the binding reports
MaxErrors == 1        \* binding calls that fail during the scrapes of a run

Scrapers == 1..NumScrapes
Indices == 0..(MaxDevices - 1)

\* Values the native binding can hand back for the identity accessors of the
\* device at index k: any later index may report the minor number of index 0.
Minors(k) == {0, k}
UUIDs == {"GPU-a"}
Names == {"T4"}

\* The six gauge vectors of the Collector, by field name.
VecNames == {"usedMemory", "totalMemory", "dutyCycle", "powerUsage",
             "temperature", "fanSpeed"}

\* The per-device accessors of the binding, in the order Collect calls them.
Identity == <<"DeviceHandleByIndex", "MinorNumber", "UUID", "Name">>
Telemetry == <<"MemoryInfo", "UtilizationRates", "PowerUsage", "Temperature",
               "FanSpeed">>
Accessors == {Identity[k] : k \in 1..4} \cup {Telemetry[k] : k \in 1..5}

VARIABLES
    pcMain,      \* main(): the statement it is at
    nvml,        \* the binding: "uninit", "ready", "shutdown"
    initCalls,   \* calls of gonvml.Initialize so far
    shutCalls,   \* calls of gonvml.Shutdown so far
    registered,  \* the Collector is registered with the default registry
    mutex,       \* Collector.Mutex: 0 when free, else the goroutine holding it
    numDevices,  \* Collector.numDevices: the value of the one count gauge
    vecs,        \* the six gauge vectors: vector name -> (labels -> value)
    pc,          \* per goroutine: where its Collect is
    i,           \* per goroutine: the loop variable of Collect
    res,         \* per goroutine: what the binding returned to this Collect
    ch,          \* per goroutine: what this Collect has sent on its channel
    budget       \* binding calls that may still fail

vars == <<pcMain, nvml, initCalls, shutCalls, registered, mutex, numDevices,
          vecs, pc, i, res, ch, budget>>
mainVars == <<pcMain, nvml, initCalls, shutCalls, registered>>
collVars == <<mutex, numDevices, vecs, pc, i, res, ch, budget>>

\* ----------------------------------------------------------- conversions
Digit(d) == <<"0", "1", "2", "3", "4", "5", "6", "7", "8", "9">>[d + 1]

RECURSIVE Itoa(_)
\* strconv.Itoa on a non-negative int: decimal digits, most significant first.
Itoa(n) == IF n < 10 THEN Digit(n) ELSE Itoa(n \div 10) \o Digit(n % 10)

\* float64(x) of an unsigned integer: exact below 2^53, which covers every
\* value of the model.
Float64(n) == n

\* --------------------------------------------------------- binding results
Uncalled(zero) == [st |-> "uncalled", v |-> zero]
Err(zero) == [st |-> "err", v |-> zero]
Ok(v) == [st |-> "ok", v |-> v]

\* The zero value Go leaves in the result variable of a failed call.
Zero(a) == CASE a \in {"UUID", "Name"} -> ""
             [] a = "MemoryInfo" -> <<0, 0>>
             [] OTHER -> 0

NoDevice == [a \in Accessors |-> Uncalled(Zero(a))]
NoRes == [count |-> Uncalled(0), dev |-> [k \in Indices |-> NoDevice]]
NoCh == [gauge |-> FALSE, samples |-> {}]
EmptyVec == [l \in {} |-> 0]

\* What a call can return: one of its values, or an error.
Outcomes(a, values) ==
    {Ok(v) : v \in values}
    \cup (IF budget > 0 THEN {Err(Zero(a))} ELSE {})

\* The failures still allowed after a call returned r.
Spend(r) == IF r.st = "err" THEN budget - 1 ELSE budget

\* The reading device k reports for telemetry field f.
Reading(k, f) == 10 * (k + 1) + f

\* ------------------------------------------------------------ gauge vectors
\* GaugeVec.Reset on all six vectors: no label set is left.
ResetAll(vs) == [n \in VecNames |-> EmptyVec]

\* The same, keeping the value of a child that exists.
GaugeSetKeepFirst(vec, l, v) ==
    [x \in (DOMAIN vec) \cup {l} |-> IF x \in DOMAIN vec THEN vec[x] ELSE v]

\* vec.WithLabelValues(l...).Set(v): the child for l is created when missing
\* and its value replaced.
GaugeSet(vec, l, v) == [x \in (DOMAIN vec) \cup {l} |-> IF x = l THEN v ELSE vec[x]]

\* c.<n>.WithLabelValues(minor, uuid, name).Set(v) on vector n.
SetIn(vs, n, l, v) == [vs EXCEPT ![n] = GaugeSet(@, l, v)]

\* What a successful read r of accessor a records under labels l; MemoryInfo
\* returns (total, used).  This variant forgets the total.
StoreUsedOnly(vs, a, l, r) ==
    CASE a = "MemoryInfo" -> SetIn(vs, "usedMemory", l, Float64(r[2]))
      [] a = "UtilizationRates" -> SetIn(vs, "dutyCycle", l, Float64(r))
      [] a = "PowerUsage" -> SetIn(vs, "powerUsage", l, Float64(r))
      [] a = "Temperature" -> SetIn(vs, "temperature", l, Float64(r))
      [] a = "FanSpeed" -> SetIn(vs, "fanSpeed", l, Float64(r))

\* What a successful read r of accessor a records under labels l; MemoryInfo
\* returns (total, used).
Store(vs, a, l, r) ==
    CASE a = "MemoryInfo" ->
           SetIn(SetIn(vs, "usedMemory", l, Float64(r[2])),
                 "totalMemory", l, Float64(r[1]))
      [] a = "UtilizationRates" -> SetIn(vs, "dutyCycle", l, Float64(r))
      [] a = "PowerUsage" -> SetIn(vs, "powerUsage", l, Float64(r))
      [] a = "Temperature" -> SetIn(vs, "temperature", l, Float64(r))
      [] a = "FanSpeed" -> SetIn(vs, "fanSpeed", l, Float64(r))

\* GaugeVec.Collect(ch): one sample per label set the vector holds.
VecSamples(vs, n) ==
    {[vec |-> n, labels |-> l, value |-> vs[n][l]] : l \in DOMAIN vs[n]}

\* ------------------------------------------------------------------- main
Alive == pcMain # "exited"

\* gonvml.Initialize() with a failure that is only logged.
InitializeNotFatal ==
    /\ pcMain = "init"
    /\ initCalls' = initCalls + 1
    /\ \/ nvml' = "ready" /\ pcMain' = "version"
       \/ nvml' = nvml /\ pcMain' = "version"
    /\ UNCHANGED <<shutCalls, registered>>
    /\ UNCHANGED collVars

\* gonvml.Initialize(); a failure is log.Fatal, which exits the process.
Initialize ==
    /\ pcMain = "init"
    /\ initCalls' = initCalls + 1
    /\ \/ nvml' = "ready" /\ pcMain' = "version"
       \/ nvml' = nvml /\ pcMain' = "exited"
    /\ UNCHANGED <<shutCalls, registered>>
    /\ UNCHANGED collVars

\* gonvml.SystemDriverVersion(): either outcome is only logged.
SystemDriverVersion ==
    /\ pcMain = "version"
    /\ pcMain' = "register"
    /\ UNCHANGED <<nvml, initCalls, shutCalls, registered>>
    /\ UNCHANGED collVars

\* prometheus.MustRegister(NewCollector()).
MustRegister ==
    /\ pcMain = "register"
    /\ registered' = TRUE
    /\ pcMain' = "listen"
    /\ UNCHANGED <<nvml, initCalls, shutCalls>>
    /\ UNCHANGED collVars

\* http.ListenAndServe is entered: scrapes are served from here on.
ListenAndServe ==
    /\ pcMain = "listen"
    /\ pcMain' = "serving"
    /\ UNCHANGED <<nvml, initCalls, shutCalls, registered>>
    /\ UNCHANGED collVars

\* http.ListenAndServe returns (it only ever returns an error).
ServeReturns ==
    /\ pcMain = "serving"
    /\ pcMain' = "shutdown"
    /\ UNCHANGED <<nvml, initCalls, shutCalls, registered>>
    /\ UNCHANGED collVars

\* gonvml.Shutdown(); either outcome is logged and main returns.
Shutdown ==
    /\ pcMain = "shutdown"
    /\ shutCalls' = shutCalls + 1
    /\ nvml' = "shutdown"
    /\ pcMain' = "exited"
    /\ UNCHANGED <<initCalls, registered>>
    /\ UNCHANGED collVars

\* ---------------------------------------------------------------- Collect
\* The count this Collect got from the binding (its local numDevices).
Count(p) == res[p].count.v

\* The labels of the device being processed: strconv.Itoa(int(minorNumber)),
\* uuid, name.
Labels(p) ==
    LET d == res[p].dev[i[p]]
    IN <<Itoa(d["MinorNumber"].v), d["UUID"].v, d["Name"].v>>

\* Where the for loop goes after the body for index i ends or continues.
LoopNext(p) == IF i[p] + 1 < Count(p) THEN "DeviceHandleByIndex" ELSE "Collect"

\* The exposition layer calls Collect for a scrape, on a fresh channel.
\* Requests are numbered in the order they arrive.
CollectCall(p) ==
    /\ pcMain = "serving"
    /\ registered
    /\ pc[p] = "idle"
    /\ \A q \in Scrapers : q < p => pc[q] # "idle"
    /\ pc' = [pc EXCEPT ![p] = "Lock"]
    /\ UNCHANGED <<mutex, numDevices, vecs, i, res, ch, budget>>
    /\ UNCHANGED mainVars

\* c.Lock() returns once the mutex is free.
LockNoWait(p) ==
    /\ Alive
    /\ pc[p] = "Lock"
    /\ mutex' = p
    /\ pc' = [pc EXCEPT ![p] = "Reset"]
    /\ UNCHANGED <<numDevices, vecs, i, res, ch, budget>>
    /\ UNCHANGED mainVars

Lock(p) ==
    /\ Alive
    /\ pc[p] = "Lock"
    /\ mutex = 0
    /\ mutex' = p
    /\ pc' = [pc EXCEPT ![p] = "Reset"]
    /\ UNCHANGED <<numDevices, vecs, i, res, ch, budget>>
    /\ UNCHANGED mainVars

\* The six Reset calls.
ResetSkipped(p) ==
    /\ Alive
    /\ pc[p] = "Reset"
    /\ pc' = [pc EXCEPT ![p] = "DeviceCount"]
    /\ UNCHANGED <<mutex, numDevices, vecs, i, res, ch, budget>>
    /\ UNCHANGED mainVars

Reset(p) ==
    /\ Alive
    /\ pc[p] = "Reset"
    /\ vecs' = ResetAll(vecs)
    /\ pc' = [pc EXCEPT ![p] = "DeviceCount"]
    /\ UNCHANGED <<mutex, numDevices, i, res, ch, budget>>
    /\ UNCHANGED mainVars

\* gonvml.DeviceCount(): on an error return (the deferred Unlock runs next);
\* else set the count gauge, send it, and enter the loop.
DeviceCountNoReturn(p) ==
    /\ Alive
    /\ pc[p] = "DeviceCount"
    /\ \E r \in Outcomes("DeviceCount", 0..MaxDevices) :
         /\ res' = [res EXCEPT ![p].count = r]
         /\ budget' = Spend(r)
         /\ numDevices' = Float64(r.v)
         /\ ch' = [ch EXCEPT ![p].gauge = TRUE]
         /\ pc' = [pc EXCEPT ![p] = IF 0 < r.v THEN "DeviceHandleByIndex"
                                               ELSE "Collect"]
    /\ UNCHANGED <<mutex, vecs, i>>
    /\ UNCHANGED mainVars

DeviceCountLeak(p) ==
    /\ Alive
    /\ pc[p] = "DeviceCount"
    /\ \E r \in Outcomes("DeviceCount", 0..MaxDevices) :
         /\ res' = [res EXCEPT ![p].count = r]
         /\ budget' = Spend(r)
         /\ IF r.st = "err"
            THEN /\ pc' = [pc EXCEPT ![p] = "returned"]
                 /\ UNCHANGED <<numDevices, ch>>
            ELSE /\ numDevices' = Float64(r.v)
                 /\ ch' = [ch EXCEPT ![p].gauge = TRUE]
                 /\ pc' = [pc EXCEPT ![p] = IF 0 < r.v THEN "DeviceHandleByIndex"
                                                       ELSE "Collect"]
    /\ UNCHANGED <<mutex, vecs, i>>
    /\ UNCHANGED mainVars

DeviceCount(p) ==
    /\ Alive
    /\ pc[p] = "DeviceCount"
    /\ \E r \in Outcomes("DeviceCount", 0..MaxDevices) :
         /\ res' = [res EXCEPT ![p].count = r]
         /\ budget' = Spend(r)
         /\ IF r.st = "err"
            THEN /\ pc' = [pc EXCEPT ![p] = "Unlock"]
                 /\ UNCHANGED <<numDevices, ch>>
            ELSE /\ numDevices' = Float64(r.v)
                 /\ ch' = [ch EXCEPT ![p].gauge = TRUE]
                 /\ pc' = [pc EXCEPT ![p] = IF 0 < r.v THEN "DeviceHandleByIndex"
                                                       ELSE "Collect"]
    /\ UNCHANGED <<mutex, vecs, i>>
    /\ UNCHANGED mainVars

\* One identity accessor for index i: on an error log and continue with the
\* next index, else go on to the accessor after it.
IdentityCall(p, a, values, next) ==
    /\ Alive
    /\ pc[p] = a
    /\ \E r \in Outcomes(a, values) :
         /\ res' = [res EXCEPT ![p].dev[i[p]][a] = r]
         /\ budget' = Spend(r)
         /\ IF r.st = "err"
            THEN /\ pc' = [pc EXCEPT ![p] = LoopNext(p)]
                 /\ i' = [i EXCEPT ![p] = @ + 1]
            ELSE /\ pc' = [pc EXCEPT ![p] = next]
                 /\ i' = i
    /\ UNCHANGED <<mutex, numDevices, vecs, ch>>
    /\ UNCHANGED mainVars

\* The same without the continue: the body goes on after a failed lookup.
IdentityCallNoContinue(p, a, values, next) ==
    /\ Alive
    /\ pc[p] = a
    /\ \E r \in Outcomes(a, values) :
         /\ res' = [res EXCEPT ![p].dev[i[p]][a] = r]
         /\ budget' = Spend(r)
         /\ pc' = [pc EXCEPT ![p] = next]
         /\ i' = i
    /\ UNCHANGED <<mutex, numDevices, vecs, ch>>
    /\ UNCHANGED mainVars

DeviceHandleByIndex(p) ==
    IdentityCall(p, "DeviceHandleByIndex", {i[p]}, "MinorNumber")

MinorNumber(p) == IdentityCall(p, "MinorNumber", Minors(i[p]), "UUID")

UUIDNoContinue(p) == IdentityCallNoContinue(p, "UUID", UUIDs, "Name")

UUID(p) == IdentityCall(p, "UUID", UUIDs, "Name")

Name(p) == IdentityCall(p, "Name", Names, "MemoryInfo")

\* One telemetry read for index i: on an error only log, else record it in
\* the vectors; in both cases go on to the next read, or after the last one
\* to the next index.
TelemetryCall(p, a, values, next, last) ==
    /\ Alive
    /\ pc[p] = a
    /\ \E r \in Outcomes(a, values) :
         /\ res' = [res EXCEPT ![p].dev[i[p]][a] = r]
         /\ budget' = Spend(r)
         /\ vecs' = IF r.st = "err" THEN vecs ELSE Store(vecs, a, Labels(p), r.v)
    /\ pc' = [pc EXCEPT ![p] = IF last THEN LoopNext(p) ELSE next]
    /\ i' = IF last THEN [i EXCEPT ![p] = @ + 1] ELSE i
    /\ UNCHANGED <<mutex, numDevices, ch>>
    /\ UNCHANGED mainVars

\* The same with a continue in the error branch: a failed read ends the body.
TelemetryCallSkip(p, a, values, next) ==
    /\ Alive
    /\ pc[p] = a
    /\ \E r \in Outcomes(a, values) :
         /\ res' = [res EXCEPT ![p].dev[i[p]][a] = r]
         /\ budget' = Spend(r)
         /\ vecs' = IF r.st = "err" THEN vecs ELSE Store(vecs, a, Labels(p), r.v)
         /\ pc' = [pc EXCEPT ![p] = IF r.st = "err" THEN LoopNext(p) ELSE next]
         /\ i' = IF r.st = "err" THEN [i EXCEPT ![p] = @ + 1] ELSE i
    /\ UNCHANGED <<mutex, numDevices, ch>>
    /\ UNCHANGED mainVars

\* dev.MemoryInfo() returns (total, used).
MemoryInfo(p) ==
    TelemetryCall(p, "MemoryInfo", {<<Reading(i[p], 2), Reading(i[p], 1)>>},
                  "UtilizationRates", FALSE)

UtilizationRates(p) ==
    TelemetryCall(p, "UtilizationRates", {Reading(i[p], 3)}, "PowerUsage", FALSE)

PowerUsage(p) ==
    TelemetryCall(p, "PowerUsage", {Reading(i[p], 4)}, "Temperature", FALSE)

TemperatureSkip(p) ==
    TelemetryCallSkip(p, "Temperature", {Reading(i[p], 5)}, "FanSpeed")

Temperature(p) ==
    TelemetryCall(p, "Temperature", {Reading(i[p], 5)}, "FanSpeed", FALSE)

FanSpeed(p) ==
    TelemetryCall(p, "FanSpeed", {Reading(i[p], 6)}, "", TRUE)

\* The six GaugeVec.Collect(ch) calls after the loop.
VecCollect(p) ==
    /\ Alive
    /\ pc[p] = "Collect"
    /\ ch' = [ch EXCEPT ![p].samples =
                 @ \cup UNION {VecSamples(vecs, n) : n \in VecNames}]
    /\ pc' = [pc EXCEPT ![p] = "Unlock"]
    /\ UNCHANGED <<mutex, numDevices, vecs, i, res, budget>>
    /\ UNCHANGED mainVars

\* The deferred c.Unlock(), and the return.  The locals go out of scope and
\* the gauges of the vectors, which nothing changes once they are sent, are
\* with the exposition layer; what stays is the count this Collect got and
\* whether it sent the count gauge, whose value is read later.
Unlock(p) ==
    /\ Alive
    /\ pc[p] = "Unlock"
    /\ mutex' = 0
    /\ pc' = [pc EXCEPT ![p] = "returned"]
    /\ i' = [i EXCEPT ![p] = 0]
    /\ res' = [res EXCEPT ![p] = [NoRes EXCEPT !.count = res[p].count]]
    /\ ch' = [ch EXCEPT ![p].samples = {}]
    /\ UNCHANGED <<numDevices, vecs, budget>>
    /\ UNCHANGED mainVars

\* The exposition layer answers the scrape once Collect has returned.  It
\* writes out what it was sent; for the count gauge, which it holds by
\* reference, that is the value the shared gauge has at this moment.  Between
\* the send and the return only the sending Collect holds the mutex, so a
\* read before the return sees what a read right after it sees.
Gather(p) ==
    /\ Alive
    /\ pc[p] = "returned"
    /\ pc' = [pc EXCEPT ![p] = "done"]
    /\ res' = [res EXCEPT ![p] = NoRes]
    /\ ch' = [ch EXCEPT ![p] = NoCh]
    /\ UNCHANGED <<mutex, numDevices, vecs, i, budget>>
    /\ UNCHANGED mainVars

\* ---------------------------------------------------------- specifications
CollInit ==
    /\ mutex = 0
    /\ numDevices = 0
    /\ vecs = [n \in VecNames |-> EmptyVec]
    /\ pc = [p \in Scrapers |-> "idle"]
    /\ i = [p \in Scrapers |-> 0]
    /\ res = [p \in Scrapers |-> NoRes]
    /\ ch = [p \in Scrapers |-> NoCh]

\* The process as started, with a binding whose calls inside Collect succeed
\* (Spec explores their failures).
MainInit ==
    /\ pcMain = "init"
    /\ nvml = "uninit"
    /\ initCalls = 0
    /\ shutCalls = 0
    /\ registered = FALSE
    /\ CollInit
    /\ budget = 0

\* The process once main() is inside ListenAndServe.
Init ==
    /\ pcMain = "serving"
    /\ nvml = "ready"
    /\ initCalls = 1
    /\ shutCalls = 0
    /\ registered = TRUE
    /\ CollInit
    /\ budget = MaxErrors

CollectStep(p) ==
    \/ CollectCall(p)
    \/ Lock(p)
    \/ Reset(p)
    \/ DeviceCount(p)
    \/ DeviceHandleByIndex(p)
    \/ MinorNumber(p)
    \/ UUID(p)
    \/ Name(p)
    \/ MemoryInfo(p)
    \/ UtilizationRates(p)
    \/ PowerUsage(p)
    \/ Temperature(p)
    \/ FanSpeed(p)
    \/ VecCollect(p)
    \/ Unlock(p)

Next ==
    \/ \E p \in Scrapers : CollectStep(p)
    \/ \E p \in Scrapers : Gather(p)

MainNext ==
    \/ Initialize
    \/ SystemDriverVersion
    \/ MustRegister
    \/ ListenAndServe
    \/ ServeReturns
    \/ Shutdown
    \/ Next

Spec == Init /\ [][Next]_vars

MainSpec == MainInit /\ [][MainNext]_vars

\* Scheduling: the Go scheduler runs every runnable goroutine, and a
\* sync.Mutex hands the lock to a goroutine that has waited (starvation mode),
\* so a waiting Lock returns when the mutex is free again and again.
Fairness ==
    \A p \in Scrapers :
        /\ SF_vars(Lock(p))
        /\ WF_vars(Reset(p) \/ DeviceCount(p) \/ DeviceHandleByIndex(p)
                     \/ MinorNumber(p) \/ UUID(p) \/ Name(p) \/ MemoryInfo(p)
                     \/ UtilizationRates(p) \/ PowerUsage(p) \/ Temperature(p)
                     \/ FanSpeed(p) \/ VecCollect(p) \/ Unlock(p))

\* Liveness is checked over the runs in which at most one binding call
\* fails: each way out of Collect (failed count query, skipped device, loop
\* run to its end) needs at most one.
LiveInit ==
    /\ pcMain = "serving"
    /\ nvml = "ready"
    /\ initCalls = 1
    /\ shutCalls = 0
    /\ registered = TRUE
    /\ CollInit
    /\ budget = 1

LiveSpec == LiveInit /\ [][Next]_vars /\ Fairness

\* ------------------------------------------------------- reading a Collect
\* Collect of p is between c.Lock() returning and the deferred c.Unlock().
InCollect(p) ==
    pc[p] \in {"Reset", "DeviceCount", "DeviceHandleByIndex", "MinorNumber",
               "UUID", "Name", "MemoryInfo", "UtilizationRates", "PowerUsage",
               "Temperature", "FanSpeed", "Collect", "Unlock"}

\* Collect of p has done all its work; only the deferred Unlock is left.
Finished(p) == pc[p] = "Unlock"

Called(p, k, a) == res[p].dev[k][a].st # "uncalled"
Succeeded(p, k, a) == res[p].dev[k][a].st = "ok"
Failed(p, k, a) == res[p].dev[k][a].st = "err"

\* The indices this Collect iterates over.
Range(p) == IF res[p].count.st = "ok" THEN {k \in Indices : k < Count(p)} ELSE {}

Identified(p, k) == \A n \in 1..4 : Succeeded(p, k, Identity[n])

\* The labels of index k, once identified.
Triple(p, k) ==
    <<Itoa(res[p].dev[k]["MinorNumber"].v), res[p].dev[k]["UUID"].v,
      res[p].dev[k]["Name"].v>>

\* The read that feeds vector n, and the value it returned for that vector.
ReadOf(n) == CASE n \in {"usedMemory", "totalMemory"} -> "MemoryInfo"
               [] n = "dutyCycle" -> "UtilizationRates"
               [] n = "powerUsage" -> "PowerUsage"
               [] n = "temperature" -> "Temperature"
               [] n = "fanSpeed" -> "FanSpeed"

ReadValue(p, k, n) ==
    LET r == res[p].dev[k][ReadOf(n)].v
    IN CASE n = "usedMemory" -> r[2]
         [] n = "totalMemory" -> r[1]
         [] OTHER -> r

Sample(n, l, v) == [vec |-> n, labels |-> l, value |-> v]

\* Vector n has a sample with the labels of index k among what p has sent.
HasGauge(p, k, n) ==
    \E s \in ch[p].samples : s.vec = n /\ s.labels = Triple(p, k)

\* No other identified index of this Collect reports the labels of index k.
UniqueTriple(p, k) ==
    \A j \in Range(p) :
        (j # k /\ Identified(p, j)) => Triple(p, j) # Triple(p, k)

Max(S) == CHOOSE x \in S : \A y \in S : y <= x

\* --------------------------------------------------------------- claims

\* C1: at most one Collect is between acquiring and releasing the lock, and
\* it is the holder of the mutex; so no step of one Collect's resets, count
\* query, device reads or emission falls between the steps of another.
C1_OneCollectAtATime ==
    \A p, q \in Scrapers :
        /\ InCollect(p) => mutex = p
        /\ (InCollect(p) /\ InCollect(q)) => p = q

\* C1 witness: one Collect is reading a device while another, called
\* concurrently, waits for the lock.
C1_Witness ==
    \E p, q \in Scrapers :
        p # q /\ pc[p] = "Temperature" /\ pc[q] = "Lock"

\* C2: whenever the exposition layer writes out the count gauge of a scrape,
\* the value it reads is the device count the binding returned to that
\* scrape's own Collect.
C2_ReportedCountIsOwnCount ==
    [][\A p \in Scrapers :
          (pc[p] = "returned" /\ pc'[p] = "done" /\ ch[p].gauge)
              => numDevices = Float64(Count(p))]_vars

\* C3: a Collect whose count query failed has sent nothing, has called no
\* per-device accessor and goes on to return; a Collect whose count query
\* succeeded has sent the count gauge.
C3_CountFailureSendsNothing ==
    \A p \in Scrapers :
        /\ res[p].count.st = "err" =>
              /\ ch[p] = NoCh
              /\ \A k \in Indices : \A a \in Accessors : ~Called(p, k, a)
              /\ pc[p] \in {"Unlock", "returned"}
        /\ res[p].count.st = "ok" => ch[p].gauge

\* C3 witness: one Collect has returned after a failed count query, and a
\* later one, whose count query succeeded, has emitted the count gauge and
\* device samples.
C3_Witness ==
    \E p, q \in Scrapers :
        /\ pc[p] = "returned" /\ res[p].count.st = "err" /\ ~ch[p].gauge
        /\ Finished(q) /\ ch[q].gauge /\ ch[q].samples # {}

\* C4: for every index the identity lookups are made in the order handle,
\* minor number, UUID, name, each only after the one before it succeeded, and
\* telemetry is read only after all four succeeded; when Collect is finished
\* every index below the count was processed, the count gauge carries the raw
\* count, and every sample belongs to an index whose identity was complete.
C4_IdentityFailureSkipsDevice ==
    \A p \in Scrapers :
        /\ \A k \in Indices :
              /\ \A n \in 2..4 :
                    Called(p, k, Identity[n]) => Succeeded(p, k, Identity[n - 1])
              /\ \A n \in 1..5 : Called(p, k, Telemetry[n]) => Identified(p, k)
              /\ Called(p, k, "DeviceHandleByIndex") => k \in Range(p)
        /\ (Finished(p) /\ res[p].count.st = "ok") =>
              /\ \A k \in Range(p) : Called(p, k, "DeviceHandleByIndex")
              /\ ch[p].gauge /\ numDevices = Float64(Count(p))
              /\ \A s \in ch[p].samples :
                    \E k \in Range(p) : Identified(p, k) /\ s.labels = Triple(p, k)

\* C4 witness: two devices, index 1 fails its UUID lookup, index 0 is read in
\* full: the count gauge (value 2) and the six gauges of index 0 are sent.
C4_Witness ==
    \E p \in Scrapers :
        /\ Finished(p) /\ res[p].count = Ok(2)
        /\ Failed(p, 1, "UUID") /\ ~Called(p, 1, "Name")
        /\ ch[p].gauge /\ numDevices = 2
        /\ ch[p].samples = {Sample(n, Triple(p, 0), Float64(ReadValue(p, 0, n)))
                             : n \in VecNames}

\* C5 as claimed: for every identified device all five reads are attempted,
\* and each gauge is sent for that device with the value its read returned
\* exactly when that read succeeded.
C5_EveryDevice ==
    \A p \in Scrapers :
        Finished(p) =>
            \A k \in Range(p) :
                Identified(p, k) =>
                    /\ \A n \in 1..5 : Called(p, k, Telemetry[n])
                    /\ \A n \in VecNames :
                          IF Succeeded(p, k, ReadOf(n))
                          THEN Sample(n, Triple(p, k), Float64(ReadValue(p, k, n)))
                                   \in ch[p].samples
                          ELSE ~HasGauge(p, k, n)

\* C5 as amended: every telemetry read of an identified device is attempted
\* whatever the reads before it returned; for a device whose labels no other
\* identified index of the scrape reports, each gauge is sent with the value
\* its read returned exactly when that read succeeded.
C5_TelemetryReadsIndependent ==
    \A p \in Scrapers :
        /\ \A k \in Indices :
              \A n \in 2..5 :
                  Called(p, k, Telemetry[n]) => Called(p, k, Telemetry[n - 1])
        /\ Finished(p) =>
              \A k \in Range(p) :
                  Identified(p, k) =>
                      /\ \A n \in 1..5 : Called(p, k, Telemetry[n])
                      /\ UniqueTriple(p, k) =>
                            \A n \in VecNames :
                                IF Succeeded(p, k, ReadOf(n))
                                THEN Sample(n, Triple(p, k),
                                            Float64(ReadValue(p, k, n)))
                                         \in ch[p].samples
                                ELSE ~HasGauge(p, k, n)

\* C5 witness: two devices with different labels; the temperature read of
\* index 0 failed and its other reads succeeded: five gauges for index 0,
\* and index 1 has its temperature gauge.
C5_Witness ==
    \E p \in Scrapers :
        /\ Finished(p) /\ res[p].count = Ok(2)
        /\ Identified(p, 0) /\ Identified(p, 1) /\ Triple(p, 0) # Triple(p, 1)
        /\ Failed(p, 0, "Temperature") /\ Succeeded(p, 0, "FanSpeed")
        /\ Cardinality({n \in VecNames : HasGauge(p, 0, n)}) = 5
        /\ ~HasGauge(p, 0, "temperature")
        /\ HasGauge(p, 1, "temperature")

\* C6 as claimed: for every identified device each of the six gauges is
\* either sent with the value of its read or absent with that read failed.
C6_EveryGauge ==
    \A p \in Scrapers :
        Finished(p) =>
            \A k \in Range(p) :
                Identified(p, k) =>
                    \A n \in VecNames :
                        \/ /\ Succeeded(p, k, ReadOf(n))
                           /\ \E s \in ch[p].samples :
                                 /\ s.vec = n /\ s.labels = Triple(p, k)
                                 /\ s.value = Float64(ReadValue(p, k, n))
                        \/ /\ Failed(p, k, ReadOf(n))
                           /\ \A s \in ch[p].samples :
                                 ~(s.vec = n /\ s.labels = Triple(p, k))

\* C6 as amended: memory used and memory total come from the one MemoryInfo
\* read and are sent for the same label sets; for a device whose labels no
\* other identified index of the scrape reports, each of the six gauges is
\* either sent with the value of its read or absent with that read failed.
C6_GaugePresencePerRead ==
    \A p \in Scrapers :
        Finished(p) =>
            /\ \A l \in {s.labels : s \in ch[p].samples} :
                  (\E s \in ch[p].samples : s.vec = "usedMemory" /\ s.labels = l)
                  <=> (\E s \in ch[p].samples : s.vec = "totalMemory" /\ s.labels = l)
            /\ \A k \in Range(p) :
                  (Identified(p, k) /\ UniqueTriple(p, k)) =>
                      \A n \in VecNames :
                          \/ /\ Succeeded(p, k, ReadOf(n))
                             /\ \E s \in ch[p].samples :
                                   /\ s.vec = n /\ s.labels = Triple(p, k)
                                   /\ s.value = Float64(ReadValue(p, k, n))
                          \/ /\ Failed(p, k, ReadOf(n))
                             /\ \A s \in ch[p].samples :
                                   ~(s.vec = n /\ s.labels = Triple(p, k))

\* C6 witness: an identified device whose MemoryInfo read failed and whose
\* other four reads succeeded: memory used and memory total are both absent,
\* the other four gauges are sent.
C6_Witness ==
    \E p \in Scrapers :
        \E k \in Range(p) :
            /\ Finished(p) /\ Identified(p, k) /\ UniqueTriple(p, k)
            /\ Failed(p, k, "MemoryInfo")
            /\ {n \in VecNames : HasGauge(p, k, n)}
                 = {"dutyCycle", "powerUsage", "temperature", "fanSpeed"}

\* C7: every sample a Collect sends was recorded during that Collect: its
\* labels are those of an index identified in this Collect, whose read for
\* that vector succeeded in this Collect with the value sent; and until the
\* count query has returned the vectors this Collect works on are empty.
C7_NoStaleSamples ==
    \A p \in Scrapers :
        /\ pc[p] = "DeviceCount" => \A n \in VecNames : DOMAIN vecs[n] = {}
        /\ \A s \in ch[p].samples :
              \E k \in Range(p) :
                  /\ Identified(p, k) /\ s.labels = Triple(p, k)
                  /\ Succeeded(p, k, ReadOf(s.vec))
                  /\ s.value = Float64(ReadValue(p, k, s.vec))

\* C7 witness: no binding call has failed so far; scrape N found devices, so
\* it sent their samples, and has returned; scrape N+1 found no device and
\* is finished having sent the count gauge and no sample.
C7_Witness ==
    \E p, q \in Scrapers :
        /\ budget = MaxErrors
        /\ pc[p] = "returned" /\ res[p].count.st = "ok" /\ Count(p) > 0
        /\ Finished(q) /\ res[q].count = Ok(0)
        /\ ch[q].gauge /\ ch[q].samples = {}

\* C8: the mutex is held only by a Collect that has not returned, and every
\* Collect that waits for the lock or holds it eventually returns, with the
\* mutex no longer held by it.
C8_CollectReturnsAndReleases ==
    /\ [](\A p \in Scrapers : mutex = p => InCollect(p))
    /\ \A p \in Scrapers :
          (pc[p] = "Lock" \/ InCollect(p))
              ~> (pc[p] = "returned" /\ mutex # p)

\* C8 witness: both Collects have returned, one of them through the early
\* return after a failed count query, and the mutex is free.
C8_Witness ==
    \E p, q \in Scrapers :
        /\ p # q
        /\ pc[p] = "returned" /\ res[p].count.st = "err"
        /\ pc[q] = "returned" /\ res[q].count.st = "ok"
        /\ mutex = 0

\* C9: Initialize is called once, before the collector is registered and
\* before any Collect; when it fails the process is over with no collector
\* registered, no Collect called and no Shutdown; Shutdown is called at most
\* once, after ListenAndServe has returned, and ends the process.
C9_InitOnceShutdownLast ==
    /\ initCalls = (IF pcMain = "init" THEN 0 ELSE 1)
    /\ registered => nvml # "uninit"
    /\ \A p \in Scrapers : pc[p] # "idle" => (registered /\ nvml # "uninit")
    /\ (initCalls = 1 /\ nvml = "uninit") =>
          /\ pcMain = "exited" /\ ~registered /\ shutCalls = 0
          /\ \A p \in Scrapers : pc[p] = "idle"
    /\ shutCalls = (IF nvml = "shutdown" THEN 1 ELSE 0)
    /\ nvml = "shutdown" => (pcMain = "exited" /\ registered)
    /\ pcMain \in {"serving", "shutdown"} => (registered /\ nvml = "ready")

\* C9 witness: a scrape was served, the server has returned and Shutdown has
\* been called, once.
C9_Witness ==
    /\ pcMain = "exited" /\ shutCalls = 1 /\ initCalls = 1
    /\ \E p \in Scrapers : pc[p] = "done"

\* C10: what a finished Collect has sent holds, per vector, one sample per
\* label set, no more samples than identified devices, and for every label
\* set and vector exactly the value of the highest index with those labels
\* whose read for that vector succeeded.
C10_OneSamplePerTriple ==
    \A p \in Scrapers :
        Finished(p) =>
            /\ \A s, t \in ch[p].samples :
                  (s.vec = t.vec /\ s.labels = t.labels) => s = t
            /\ \A n \in VecNames :
                  Cardinality({s \in ch[p].samples : s.vec = n})
                      <= Cardinality({k \in Range(p) : Identified(p, k)})
            /\ \A n \in VecNames :
                  \A k \in Range(p) :
                      (Identified(p, k) /\ Succeeded(p, k, ReadOf(n))) =>
                          LET K == {j \in Range(p) :
                                       /\ Identified(p, j)
                                       /\ Triple(p, j) = Triple(p, k)
                                       /\ Succeeded(p, j, ReadOf(n))}
                          IN Sample(n, Triple(p, k),
                                    Float64(ReadValue(p, Max(K), n)))
                                 \in ch[p].samples

\* C10 witness: indices 0 and 1 report the same labels; index 1 failed its
\* temperature read: the temperature sent is that of index 0, the fan speed
\* sent is that of index 1, one sample per vector.
C10_Witness ==
    \E p \in Scrapers :
        /\ Finished(p) /\ res[p].count = Ok(2)
        /\ Identified(p, 0) /\ Identified(p, 1) /\ Triple(p, 0) = Triple(p, 1)
        /\ Succeeded(p, 0, "Temperature") /\ Failed(p, 1, "Temperature")
        /\ Succeeded(p, 0, "FanSpeed") /\ Succeeded(p, 1, "FanSpeed")
        /\ Sample("temperature", Triple(p, 0), Float64(ReadValue(p, 0, "temperature")))
               \in ch[p].samples
        /\ Sample("fanSpeed", Triple(p, 0), Float64(ReadValue(p, 1, "fanSpeed")))
               \in ch[p].samples
        /\ Cardinality({s \in ch[p].samples : s.vec = "fanSpeed"}) = 1

====
